---- MODULE Spec2Model ----
(***************************************************************************)
(* A model of storage_utils/base.py: the Path class (a text subclass whose *)
(* concrete class is chosen at construction), its path algebra, and the    *)
(* local-filesystem operations of FileSystemPath.                          *)
(*                                                                         *)
(* Text is modelled as a sequence of one-character strings, so that        *)
(* prefixes, separators and components are computed, not assumed.          *)
(* Four groups of variables are driven by five specifications:             *)
(*   SpecCwd  the directory-context scope (__enter__ / __exit__)           *)
(*   SpecThr  two threads, each running one directory-context scope        *)
(*   SpecAlg  construction, the / and + operators and joinpath             *)
(*   SpecFs   remove, rmtree, exists and open on a small file tree         *)
(*   SpecStr  splitpath, dirname, basename, normpath and expand            *)
(* Each specification leaves the other groups at their initial values.     *)
(***************************************************************************)
EXTENDS Integers, Sequences, FiniteSets, TLC

VARIABLES
    cwd,        \* the process-wide current working directory (os.getcwd())
    old_dir,    \* per Path object: its _old_dir attribute ("unset" before any entry)
    scopes,     \* the with-blocks currently entered, innermost last
    exc,        \* TRUE while an exception is propagating
    last,       \* the last scope operation, with the directory observed at its entry
    thr,        \* per thread running one with-block: its position, its Path object,
                \* and the _old_dir value its __exit__ has read
    hist,       \* history of the threads' scopes: which saves were made while
                \* another thread was inside its block, and who restored last
    host,       \* os.path of the host: "posixpath" or "ntpath"
    pending,    \* the path-algebra call about to be evaluated
    out,        \* the last path-algebra operation: its operands and what it returned
    fs,         \* the file tree: name -> "absent" | "file" | "dir"
    fscall,     \* the last filesystem call: its arguments, the tree before it, its outcome
    text,       \* the path string the string operations are applied to
    env,        \* os.environ and the password database seen by expandvars/expanduser
    trail       \* the string operations applied so far, with the value each returned

cwdVars == <<cwd, old_dir, scopes, exc, last, thr, hist>>
algVars == <<host, pending, out>>
fsVars  == <<fs, fscall>>
strVars == <<text, env, trail>>
vars    == <<cwd, old_dir, scopes, exc, last, thr, hist, host, pending, out, fs, fscall, text, env, trail>>

-----------------------------------------------------------------------------
(* Text helpers: Python's str methods on sequences of characters.          *)

SEP == "/"

StartsWith(s, pre) ==
    /\ Len(s) >= Len(pre)
    /\ SubSeq(s, 1, Len(pre)) = pre

EndsWith(s, suf) ==
    /\ Len(s) >= Len(suf)
    /\ SubSeq(s, Len(s) - Len(suf) + 1, Len(s)) = suf

\* s[i:] with a 0-based Python index i
From(s, i) == SubSeq(s, i + 1, Len(s))

\* s[:i] with a 0-based Python index i
UpTo(s, i) == SubSeq(s, 1, i)

\* str.find(c, start): 0-based index of the first c at or after start, or -1
Find(s, c, start) ==
    LET hits == {i \in start..(Len(s) - 1) : s[i + 1] = c}
    IN  IF hits = {} THEN -1 ELSE CHOOSE i \in hits : \A j \in hits : i <= j

\* str.rfind(c): 0-based index of the last c, or -1
RFind(s, c) ==
    LET hits == {i \in 0..(Len(s) - 1) : s[i + 1] = c}
    IN  IF hits = {} THEN -1 ELSE CHOOSE i \in hits : \A j \in hits : i >= j

RECURSIVE RStrip(_, _)
RStrip(s, c) ==
    IF s # <<>> /\ s[Len(s)] = c THEN RStrip(UpTo(s, Len(s) - 1), c) ELSE s

AllChar(s, c) == \A i \in 1..Len(s) : s[i] = c

\* str.split(c): the components between occurrences of c (never empty as a list)
RECURSIVE StrSplit(_, _)
StrSplit(s, c) ==
    LET i == Find(s, c, 0)
    IN  IF i < 0 THEN <<s>> ELSE <<UpTo(s, i)>> \o StrSplit(From(s, i + 1), c)

\* c.join(comps)
RECURSIVE StrJoin(_, _)
StrJoin(comps, c) ==
    IF comps = <<>> THEN <<>>
    ELSE IF Len(comps) = 1 THEN comps[1]
    ELSE comps[1] \o <<c>> \o StrJoin(Tail(comps), c)

\* All sequences over alphabet of length at most n
RECURSIVE SeqsUpTo(_, _)
SeqsUpTo(alphabet, n) ==
    IF n = 0 THEN {<<>>}
    ELSE LET shorter == SeqsUpTo(alphabet, n - 1)
         IN  shorter \cup {Append(s, c) : s \in shorter, c \in alphabet}

-----------------------------------------------------------------------------
(* The directory-context scope: FileSystemPath.__enter__ / __exit__.       *)

MaxDepth == 3

\* Directories that exist on the host; os.chdir to any other name fails.
Dirs == {"/home", "/tmp", "/var"}

\* Path objects the program holds. p1 and p3 are distinct objects with equal
\* text; p4 names no directory.
PathObjs == {"p1", "p2", "p3", "p4"}

PathOf(o) ==
    CASE o = "p1" -> "/tmp"
      [] o = "p2" -> "/var"
      [] o = "p3" -> "/tmp"
      [] o = "p4" -> "/nope"

NoOp == [op |-> "none"]

Threads == {"t1", "t2"}

\* Nothing has been saved or restored by any thread.
NoHist ==
    [during |-> [o \in PathObjs |-> FALSE],
     loadedDuring |-> [t \in Threads |-> FALSE],
     lastOut |-> "none"]

\* A thread about to run `with tobj[t]:`.
ThreadsReady(tobj) ==
    [t \in Threads |-> [pc |-> "ready", obj |-> tobj[t], loaded |-> "unset"]]

CwdInit ==
    /\ cwd = "/home"
    /\ old_dir = [o \in PathObjs |-> "unset"]
    /\ scopes = <<>>
    /\ exc = FALSE
    /\ last = NoOp
    /\ thr = ThreadsReady([t \in Threads |-> "p1"])
    /\ hist = NoHist

\* `with o:` is reached. __enter__ stores os.getcwd() in o._old_dir and then
\* calls os.chdir(o); when chdir raises, the block is not run and __exit__ is
\* not called, but _old_dir has already been overwritten.
Enter(o) ==
    /\ ~exc
    /\ Len(scopes) < MaxDepth
    /\ old_dir' = [old_dir EXCEPT ![o] = cwd]
    /\ IF PathOf(o) \in Dirs
       THEN /\ cwd' = PathOf(o)
            /\ scopes' = Append(scopes, [obj |-> o, entry |-> cwd])
            /\ exc' = FALSE
            /\ last' = [op |-> "enter", obj |-> o, entry |-> cwd, raised |-> FALSE]
       ELSE /\ cwd' = cwd
            /\ scopes' = scopes
            /\ exc' = TRUE
            /\ last' = [op |-> "enter_failed", obj |-> o, entry |-> cwd, raised |-> TRUE]
    /\ UNCHANGED <<thr, hist, algVars, fsVars, strVars>>

\* The innermost block is left, normally or by a propagating exception.
\* __exit__ ignores its arguments, calls os.chdir(self._old_dir) and returns
\* None, so an exception keeps propagating.
Exit ==
    /\ scopes # <<>>
    /\ LET top == scopes[Len(scopes)]
       IN  /\ cwd' = old_dir[top.obj]
           /\ last' = [op |-> "exit", obj |-> top.obj, entry |-> top.entry, raised |-> exc]
    /\ scopes' = SubSeq(scopes, 1, Len(scopes) - 1)
    /\ UNCHANGED <<old_dir, exc, thr, hist, algVars, fsVars, strVars>>

\* The body of the innermost block raises.
Raise ==
    /\ ~exc
    /\ scopes # <<>>
    /\ exc' = TRUE
    /\ UNCHANGED <<cwd, old_dir, scopes, last, thr, hist, algVars, fsVars, strVars>>

\* A handler around the block just left catches the exception.
Catch ==
    /\ exc
    /\ last.op \in {"exit", "enter_failed"}
    /\ exc' = FALSE
    /\ UNCHANGED <<cwd, old_dir, scopes, last, thr, hist, algVars, fsVars, strVars>>

-----------------------------------------------------------------------------
(* Two threads of one process, each running `with p: ...` once.  The       *)
(* interpreter may switch threads between any two calls, so __enter__ is   *)
(* two steps (the store of os.getcwd() into _old_dir, then os.chdir) and   *)
(* __exit__ is two steps (the read of _old_dir, then os.chdir).  The       *)
(* working directory is one per process; _old_dir is one per Path object,  *)
(* and the threads may hold the same object.                               *)

\* The Path objects a thread enters: those that name a directory.
ThreadObjs == {o \in PathObjs : PathOf(o) \in Dirs}

\* Thread u is inside its with-block: after its chdir and before its restore.
Inside(u) == thr[u].pc \in {"inside", "loaded"}

\* self._old_dir as __exit__ reads it
old_dir_load_Initial(od, o) == "/home"

old_dir_load(od, o) == od[o]

ThrInit ==
    /\ cwd = "/home"
    /\ old_dir = [o \in PathObjs |-> "unset"]
    /\ scopes = <<>>
    /\ exc = FALSE
    /\ last = NoOp
    /\ thr \in {ThreadsReady(tobj) : tobj \in [Threads -> ThreadObjs]}
    /\ hist = NoHist

\* __enter__, first statement: self._old_dir = os.getcwd()
ThreadSave(t) ==
    /\ thr[t].pc = "ready"
    /\ old_dir' = [old_dir EXCEPT ![thr[t].obj] = cwd]
    /\ thr' = [thr EXCEPT ![t].pc = "saved"]
    /\ hist' = [hist EXCEPT !.during[thr[t].obj] = \E u \in Threads \ {t} : Inside(u)]
    /\ UNCHANGED <<cwd, scopes, exc, last, algVars, fsVars, strVars>>

\* __enter__, second statement: os.chdir(self)
ThreadChdir(t) ==
    /\ thr[t].pc = "saved"
    /\ cwd' = PathOf(thr[t].obj)
    /\ thr' = [thr EXCEPT ![t].pc = "inside"]
    /\ UNCHANGED <<old_dir, hist, scopes, exc, last, algVars, fsVars, strVars>>

\* __exit__: the argument self._old_dir is evaluated
ThreadLoad(t) ==
    /\ thr[t].pc = "inside"
    /\ thr' = [thr EXCEPT ![t].pc = "loaded",
                          ![t].loaded = old_dir_load(old_dir, thr[t].obj)]
    /\ hist' = [hist EXCEPT !.loadedDuring[t] = hist.during[thr[t].obj]]
    /\ UNCHANGED <<cwd, old_dir, scopes, exc, last, algVars, fsVars, strVars>>

\* __exit__: os.chdir is called with the value read
ThreadRestore(t) ==
    /\ thr[t].pc = "loaded"
    /\ cwd' = thr[t].loaded
    /\ thr' = [thr EXCEPT ![t].pc = "done"]
    /\ hist' = [hist EXCEPT !.lastOut = t]
    /\ UNCHANGED <<old_dir, scopes, exc, last, algVars, fsVars, strVars>>

-----------------------------------------------------------------------------
(* Construction and the path algebra: Path.__new__, __div__, __rdiv__,     *)
(* joinpath.  A value is a record [cls, s]: cls is "str" for plain text or *)
(* the concrete Path class, s is the text.                                 *)

MaxBody == 2

MaxChain == 1

Hosts == {"posixpath", "ntpath", "os2emxpath"}

PathClasses == {"PosixPath", "WindowsPath", "SwiftPath"}

LocalClasses == {"PosixPath", "WindowsPath"}

SwiftDrive == <<"s", "w", "i", "f", "t", ":", "/", "/">>

S3Drive == <<"s", "3", ":", "/", "/">>

Tmp == <<"/", "t", "m", "p">>

HasDoubleSep(s) == \E i \in 1..(Len(s) - 1) : s[i] = SEP /\ s[i + 1] = SEP

\* What follows the scheme in the raw strings tried: short texts over "/" and
\* "a" without a doubled separator, plus the names of the documented example.
Bodies ==
    {b \in SeqsUpTo({SEP, "a"}, MaxBody) : ~HasDoubleSep(b)} \cup {Tmp, <<"b">>}

RawStrings == {scheme \o b : scheme \in {<<>>, SwiftDrive, S3Drive}, b \in Bodies}

Str(s) == [cls |-> "str", s |-> s]

IsPath(v) == v.cls \in PathClasses

TypeError == [cls |-> "TypeError", s |-> <<>>]

NotImplemented == [cls |-> "NotImplemented", s |-> <<>>]

AssertionError == [cls |-> "AssertionError", s |-> <<>>]

\* utils.is_swift_path: the text starts with the swift drive.
is_swift_path(path) == StartsWith(path, SwiftDrive)

\* Path.__new__(cls, path): the generic class picks the concrete class from
\* the text and then from os.path; a concrete class is kept as given.
Path_new_HostFirst(cls, h, path) ==
    IF cls = "Path"
    THEN IF h = "ntpath" THEN [cls |-> "WindowsPath", s |-> path]
         ELSE IF h = "posixpath" THEN [cls |-> "PosixPath", s |-> path]
         ELSE IF is_swift_path(path) THEN [cls |-> "SwiftPath", s |-> path]
         ELSE AssertionError
    ELSE [cls |-> cls, s |-> path]

Path_new(cls, h, path) ==
    IF cls = "Path"
    THEN IF is_swift_path(path) THEN [cls |-> "SwiftPath", s |-> path]
         ELSE IF h = "ntpath" THEN [cls |-> "WindowsPath", s |-> path]
         ELSE IF h = "posixpath" THEN [cls |-> "PosixPath", s |-> path]
         ELSE AssertionError
    ELSE [cls |-> cls, s |-> path]

\* The path_module attribute of each concrete class: one module per variant.
path_module(cls) ==
    CASE cls = "PosixPath" -> "posixpath"
      [] cls = "WindowsPath" -> "ntpath"
      [] cls = "SwiftPath" -> "objectstore"

\* posixpath.join(a, *p)
RECURSIVE posix_join(_, _)
posix_join(path, p) ==
    IF p = <<>> THEN path
    ELSE LET b == Head(p)
             joined == IF StartsWith(b, <<SEP>>) THEN b
                       ELSE IF path = <<>> \/ EndsWith(path, <<SEP>>) THEN path \o b
                       ELSE path \o <<SEP>> \o b
         IN  posix_join(joined, Tail(p))

\* ntpath.join(path, *paths) on texts without a drive or UNC prefix (none of
\* the texts tried, nor any join of them, has one): an absolute component
\* replaces the result, a relative one is appended after a backslash.
RECURSIVE nt_join(_, _)
nt_join(path, p) ==
    IF p = <<>> THEN path
    ELSE LET b == Head(p)
             joined == IF b # <<>> /\ b[1] \in {"\\", SEP} THEN b
                       ELSE IF path # <<>> /\ path[Len(path)] \notin {"\\", SEP}
                            THEN path \o <<"\\">> \o b
                       ELSE path \o b
         IN  nt_join(joined, Tail(p))

\* self.path_module.join(first, *rest)
module_join(mod, first, rest) ==
    IF mod = "ntpath" THEN nt_join(first, rest) ELSE posix_join(first, rest)

\* Path._has_incompatible_path_module(self, other)
has_incompatible_NeverIncompatible(self, other) == FALSE

has_incompatible_path_module(self, other) ==
    IsPath(other) /\ path_module(other.cls) # path_module(self.cls)

\* Path.__div__(self, rel)  (also __truediv__)
div(self, rel) ==
    IF has_incompatible_path_module(self, rel) THEN NotImplemented
    ELSE [cls |-> self.cls, s |-> module_join(path_module(self.cls), self.s, <<rel.s>>)]

\* Path.__rdiv__(self, rel)  (also __rtruediv__)
rdiv(self, rel) ==
    IF has_incompatible_path_module(self, rel) THEN NotImplemented
    ELSE [cls |-> self.cls, s |-> module_join(path_module(self.cls), rel.s, <<self.s>>)]

\* Python's evaluation of x / y: the left operand's method first, then the
\* right operand's reflected method when the classes differ; TypeError when
\* every method tried returns NotImplemented.
BinaryDiv(x, y) ==
    LET first == IF IsPath(x) THEN div(x, y) ELSE NotImplemented
        second == IF IsPath(y) /\ y.cls # x.cls THEN rdiv(y, x) ELSE NotImplemented
    IN  IF first # NotImplemented THEN first
        ELSE IF second # NotImplemented THEN second
        ELSE TypeError

\* Path.joinpath(self, *others)
joinpath(self, others) ==
    [cls |-> self.cls,
     s |-> module_join(path_module(self.cls), self.s,
                       [i \in 1..Len(others) |-> others[i].s])]

\* A value that is not a string at all, such as the integer 1.
IntOne == [cls |-> "int", s |-> <<"1">>]

\* isinstance(v, string_types): plain text or a Path (Path subclasses text_type)
IsString(v) == v.cls = "str" \/ IsPath(v)

\* text_type.__add__(a, b): concatenation of two strings; a TypeError is
\* raised, not returned, when b is not a string.
text_add(a, b) == IF IsString(b) THEN a.s \o b.s ELSE <<>>

\* Path.__add__(self, more)
add_JoinsWithSep(self, more) ==
    IF has_incompatible_path_module(self, more) THEN NotImplemented
    ELSE IF ~IsString(more) THEN TypeError
    ELSE [cls |-> self.cls, s |-> module_join(path_module(self.cls), self.s, <<more.s>>)]

add(self, more) ==
    IF has_incompatible_path_module(self, more) THEN NotImplemented
    ELSE IF ~IsString(more) THEN TypeError
    ELSE [cls |-> self.cls, s |-> text_add(self, more)]

\* Path.__radd__(self, other)
radd(self, other) ==
    IF has_incompatible_path_module(self, other) THEN NotImplemented
    ELSE IF ~IsString(other) THEN NotImplemented
    ELSE [cls |-> self.cls, s |-> text_add(other, self)]

\* Python's evaluation of x + y.  A Path on the right of plain text is an
\* instance of a subclass that defines __radd__, so its reflected method is
\* tried first and text concatenation only after it; otherwise the left
\* operand's method comes first and the right operand's reflected method
\* next when the classes differ.  TypeError when nothing applies.
BinaryAdd(x, y) ==
    IF x.cls = "str"
    THEN LET first == IF IsPath(y) THEN radd(y, x) ELSE NotImplemented
         IN  IF first # NotImplemented THEN first
             ELSE IF IsString(y) THEN Str(text_add(x, y))
             ELSE TypeError
    ELSE LET first == IF IsPath(x) THEN add(x, y) ELSE NotImplemented
             second == IF IsPath(y) /\ y.cls # x.cls THEN radd(y, x) ELSE NotImplemented
         IN  IF first # NotImplemented THEN first
             ELSE IF second # NotImplemented THEN second
             ELSE TypeError

\* ((self / p1) / p2) / ... ; an error ends the chain.
RECURSIVE IterDiv(_, _)
IterDiv(acc, parts) ==
    IF parts = <<>> \/ ~IsPath(acc) THEN acc
    ELSE IterDiv(BinaryDiv(acc, Head(parts)), Tail(parts))

\* The values a program on host h can hold: plain texts, and Paths built by
\* the generic or by a concrete constructor.
ValuesOver(raws, h) ==
    {Str(r) : r \in raws}
        \cup {v \in {Path_new(c, h, r) : c \in PathClasses \cup {"Path"}, r \in raws} :
                 IsPath(v)}

Values(h) == ValuesOver(RawStrings, h)

PartRaws == {<<"a">>, <<"b">>, <<SEP, "a">>, SwiftDrive \o <<"a">>}

Parts(h) == ValuesOver(PartRaws, h)

Idle == [op |-> "idle"]

\* The operands x + y is tried on, next to a Path: the parts, and the integer.
Addends(h) == Parts(h) \cup {IntOne}

\* The calls a program on host h may make: a constructor, x / y or x + y
\* with a Path on at least one side, or x.joinpath(*parts) with up to two
\* parts.
Calls(h) ==
    {[op |-> "new", cls |-> c, a |-> Str(r), parts |-> <<>>] :
        c \in PathClasses \cup {"Path"}, r \in RawStrings}
    \cup {[op |-> "div", cls |-> "", a |-> x, parts |-> <<y>>] :
        x \in {v \in Values(h) : IsPath(v)}, y \in Parts(h)}
    \cup {[op |-> "div", cls |-> "", a |-> y, parts |-> <<x>>] :
        x \in {v \in Values(h) : IsPath(v)}, y \in Parts(h)}
    \cup {[op |-> "add", cls |-> "", a |-> x, parts |-> <<y>>] :
        x \in {v \in Values(h) : IsPath(v)}, y \in Addends(h)}
    \cup {[op |-> "add", cls |-> "", a |-> y, parts |-> <<x>>] :
        x \in {v \in Values(h) : IsPath(v)}, y \in Addends(h)}
    \cup {[op |-> "joinpath", cls |-> "", a |-> x, parts |-> ps] :
        x \in {v \in Values(h) : IsPath(v)},
        ps \in {<<>>} \cup {<<y>> : y \in Parts(h)}
                  \cup {<<y, z>> : y \in Parts(h), z \in Parts(h)}}

AlgInit ==
    /\ host \in Hosts
    /\ pending \in Calls(host)
    /\ out = NoOp

\* Path(raw), PosixPath(raw), WindowsPath(raw) or SwiftPath(raw)
Construct ==
    /\ pending.op = "new"
    /\ out' = [op |-> "new", cls |-> pending.cls, a |-> pending.a, parts |-> <<>>,
               result |-> Path_new(pending.cls, host, pending.a.s), chain |-> 0]
    /\ pending' = Idle
    /\ UNCHANGED <<host, cwdVars, fsVars, strVars>>

\* x / y
Divide ==
    /\ pending.op = "div"
    /\ out' = [op |-> "div", cls |-> "", a |-> pending.a, parts |-> pending.parts,
               result |-> BinaryDiv(pending.a, pending.parts[1]), chain |-> 0]
    /\ pending' = Idle
    /\ UNCHANGED <<host, cwdVars, fsVars, strVars>>

\* (x / y) / z: the Path a division returned is divided again
DivideResult(z) ==
    /\ pending = Idle
    /\ out.op = "div"
    /\ IsPath(out.result)
    /\ out.chain < MaxChain
    /\ out' = [op |-> "div", cls |-> "", a |-> out.result, parts |-> <<z>>,
               result |-> BinaryDiv(out.result, z), chain |-> out.chain + 1]
    /\ UNCHANGED <<pending, host, cwdVars, fsVars, strVars>>

\* x.joinpath(*parts)
JoinPath ==
    /\ pending.op = "joinpath"
    /\ out' = [op |-> "joinpath", cls |-> "", a |-> pending.a, parts |-> pending.parts,
               result |-> joinpath(pending.a, pending.parts), chain |-> 0]
    /\ pending' = Idle
    /\ UNCHANGED <<host, cwdVars, fsVars, strVars>>

\* x + y
Add ==
    /\ pending.op = "add"
    /\ out' = [op |-> "add", cls |-> "", a |-> pending.a, parts |-> pending.parts,
               result |-> BinaryAdd(pending.a, pending.parts[1]), chain |-> 0]
    /\ pending' = Idle
    /\ UNCHANGED <<host, cwdVars, fsVars, strVars>>

-----------------------------------------------------------------------------
(* The local filesystem operations of FileSystemPath: remove, rmtree,      *)
(* exists and open, on a small tree of names relative to the working       *)
(* directory.  "r" and "w" are names a file may have, and also the mode    *)
(* strings a caller passes to open.                                        *)

FsNames == {"d", "d/e", "d/e/g", "d/f", "r", "w"}

Root == "."

Parent(n) ==
    CASE n = "d/e" -> "d"
      [] n = "d/f" -> "d"
      [] n = "d/e/g" -> "d/e"
      [] OTHER -> Root

Children(n) == {m \in FsNames : Parent(m) = n}

\* m is n or lies below n
RECURSIVE Under(_, _)
Under(m, n) ==
    IF m = n THEN TRUE
    ELSE IF m = Root THEN FALSE
    ELSE Under(Parent(m), n)

\* A tree the host can hold: whatever exists lies in an existing directory.
WellFormed(f) ==
    \A n \in FsNames : (f[n] # "absent" /\ Parent(n) # Root) => f[Parent(n)] = "dir"

Ok == [kind |-> "ok", err |-> ""]

\* errno of a system call on a name that is absent: ENOTDIR when a component
\* of the name is a file, ENOENT otherwise.
MissingErrno(f, n) ==
    IF \E a \in FsNames : a # n /\ Under(n, a) /\ f[a] = "file"
    THEN "ENOTDIR" ELSE "ENOENT"

OSError(errno) == [kind |-> "OSError", err |-> errno]

\* os.path.exists(n)
exists(f, n) == f[n] # "absent"

\* os.remove(n): unlinks one file; a missing name or a directory is an error
\* and nothing changes.
os_remove(f, n) ==
    CASE f[n] = "file" -> [fs |-> [f EXCEPT ![n] = "absent"], result |-> Ok]
      [] f[n] = "dir" -> [fs |-> f, result |-> OSError("EISDIR")]
      [] OTHER -> [fs |-> f, result |-> OSError(MissingErrno(f, n))]

\* The walk of shutil.rmtree below an existing directory: every entry is
\* removed, directories recursively, and then the directory itself.
RECURSIVE rmtree_walk(_, _)
RECURSIVE rmtree_entries(_, _)
rmtree_entries(f, todo) ==
    IF todo = {} THEN f
    ELSE LET k == CHOOSE k \in todo : TRUE
         IN  rmtree_entries(IF f[k] = "dir" THEN rmtree_walk(f, k)
                            ELSE os_remove(f, k).fs,
                            todo \ {k})

rmtree_walk(f, n) ==
    [rmtree_entries(f, {m \in Children(n) : f[m] # "absent"}) EXCEPT ![n] = "absent"]

\* shutil.rmtree(n) with ignore_errors=False and onerror=None: os.listdir
\* of a missing name or of a file raises, and the error is re-raised.
shutil_rmtree(f, n) ==
    CASE f[n] = "dir" -> [fs |-> rmtree_walk(f, n), result |-> Ok]
      [] f[n] = "file" -> [fs |-> f, result |-> OSError("ENOTDIR")]
      [] OTHER -> [fs |-> f, result |-> OSError(MissingErrno(f, n))]

\* FileSystemPath.remove(self): os.remove(self), and self is returned; an
\* OSError propagates.
remove_SwallowsOSError(f, self) == [fs |-> os_remove(f, self).fs, result |-> Ok]

remove(f, self) == os_remove(f, self)

\* FileSystemPath.rmtree is shutil.rmtree, called with the Path alone.
rmtree_IgnoreErrors(f, self) == [fs |-> shutil_rmtree(f, self).fs, result |-> Ok]

rmtree(f, self) == shutil_rmtree(f, self)

\* builtins.open(*args, **kwargs): the first positional argument is the
\* file, the mode comes second or by keyword and defaults to "r".  Without
\* a file the call is a TypeError.  kw is [mode, swift_upload_kwargs] with
\* "" for a keyword that is not passed.
builtins_open(f, args, kw) ==
    IF args = <<>> \/ kw.swift_upload_kwargs # ""
    THEN [fs |-> f, result |-> [kind |-> "TypeError", err |-> "", file |-> "", mode |-> ""]]
    ELSE LET file == args[1]
             mode == IF kw.mode = "" THEN "r" ELSE kw.mode
             fail(e) == [fs |-> f,
                         result |-> [kind |-> "IOError", err |-> e, file |-> file, mode |-> mode]]
             stream(g) == [fs |-> g,
                           result |-> [kind |-> "stream", err |-> "", file |-> file, mode |-> mode]]
         IN  CASE f[file] = "dir" -> fail("EISDIR")
               [] f[file] = "file" -> stream(f)
               [] mode = "w" -> stream([f EXCEPT ![file] = "file"])
               [] OTHER -> fail("ENOENT")

\* What FileSystemPath.open hands to the builtin: kwargs with
\* swift_upload_kwargs popped, and the positional arguments as received.
open_native_call(self, args, kw) ==
    [args |-> args, kw |-> [kw EXCEPT !.swift_upload_kwargs = ""]]

\* FileSystemPath.open(self, *args, **kwargs)
open(f, self, args, kw) ==
    LET native == open_native_call(self, args, kw)
    IN  builtins_open(f, native.args, native.kw)

OpenArgs == {<<>>, <<"r">>, <<"w">>}

OpenKwargs == [mode : {"", "w"}, swift_upload_kwargs : {"", "given"}]

FsInit ==
    /\ fs \in {f \in [FsNames -> {"absent", "file", "dir"}] : WellFormed(f)}
    /\ fscall = NoOp

\* TRUE when the call before was the same operation on the same path and
\* it succeeded: the new call is the second of two in a row.
Again(op, n) ==
    /\ fscall.op = op
    /\ fscall.self = n
    /\ fscall.result.kind = "ok"

\* FileSystemPath.remove(self)
Remove(n) ==
    /\ fs' = remove(fs, n).fs
    /\ fscall' = [op |-> "remove", self |-> n, args |-> <<>>, native |-> <<>>,
                  before |-> fs, again |-> Again("remove", n),
                  result |-> remove(fs, n).result]
    /\ UNCHANGED <<cwdVars, algVars, strVars>>

\* FileSystemPath.rmtree(self)
Rmtree(n) ==
    /\ fs' = rmtree(fs, n).fs
    /\ fscall' = [op |-> "rmtree", self |-> n, args |-> <<>>, native |-> <<>>,
                  before |-> fs, again |-> Again("rmtree", n),
                  result |-> rmtree(fs, n).result]
    /\ UNCHANGED <<cwdVars, algVars, strVars>>

\* FileSystemPath.exists(self)
Exists(n) ==
    /\ fscall' = [op |-> "exists", self |-> n, args |-> <<>>, native |-> <<>>,
                  before |-> fs, again |-> FALSE,
                  result |-> [kind |-> "value", err |-> "", value |-> exists(fs, n)]]
    /\ UNCHANGED <<fs, cwdVars, algVars, strVars>>

\* FileSystemPath.open(self, *args, **kwargs)
Open(n, args, kw) ==
    /\ fs' = open(fs, n, args, kw).fs
    /\ fscall' = [op |-> "open", self |-> n, args |-> <<args, kw>>,
                  native |-> open_native_call(n, args, kw),
                  before |-> fs, again |-> FALSE,
                  result |-> open(fs, n, args, kw).result]
    /\ UNCHANGED <<cwdVars, algVars, strVars>>

-----------------------------------------------------------------------------
(* The string operations of Path on the local-POSIX variant, whose         *)
(* path_module is posixpath: splitpath, dirname, basename, normpath,       *)
(* expandvars, expanduser and expand.                                      *)

MaxLen == 4

\* "A" stands for a word character: a name, a variable name or a user name.
StrChars == {SEP, ".", "~", "$", "A"}

Texts == SeqsUpTo(StrChars, MaxLen)

IsWordChar(c) == c = "A"

Unset == [set |-> FALSE, val |-> <<>>]

SetTo(v) == [set |-> TRUE, val |-> v]

\* The environments tried: HOME unset or set, the variable A unset or set to
\* a text that itself holds "~" or "$", and the user A known or not.
Envs ==
    [HOME : {Unset, SetTo(<<SEP, "A", SEP>>)},
     A : {Unset, SetTo(<<"~">>), SetTo(<<"$", "A">>)},
     userA : BOOLEAN]

\* pwd.getpwuid(os.getuid()).pw_dir
PwDirSelf == <<SEP>>

\* pwd.getpwnam("A").pw_dir
PwDirA == <<SEP, "A">>

\* posixpath.split(p)
posix_split(p) ==
    LET i == RFind(p, SEP) + 1
        head == UpTo(p, i)
        tail == From(p, i)
    IN  <<IF head # <<>> /\ ~AllChar(head, SEP) THEN RStrip(head, SEP) ELSE head, tail>>

\* posixpath.dirname(p)
posix_dirname(p) ==
    LET head == UpTo(p, RFind(p, SEP) + 1)
    IN  IF head # <<>> /\ ~AllChar(head, SEP) THEN RStrip(head, SEP) ELSE head

\* posixpath.basename(p)
posix_basename(p) == From(p, RFind(p, SEP) + 1)

\* The loop of posixpath.normpath over the components
RECURSIVE norm_comps(_, _, _)
norm_comps(comps, new_comps, initial_slashes) ==
    IF comps = <<>> THEN new_comps
    ELSE LET comp == Head(comps)
             n == Len(new_comps)
         IN  IF comp = <<>> \/ comp = <<".">> THEN
                 norm_comps(Tail(comps), new_comps, initial_slashes)
             ELSE IF \/ comp # <<".", ".">>
                     \/ (initial_slashes = 0 /\ n = 0)
                     \/ (n > 0 /\ new_comps[n] = <<".", ".">>) THEN
                 norm_comps(Tail(comps), Append(new_comps, comp), initial_slashes)
             ELSE IF n > 0 THEN
                 norm_comps(Tail(comps), SubSeq(new_comps, 1, n - 1), initial_slashes)
             ELSE norm_comps(Tail(comps), new_comps, initial_slashes)

\* posixpath.normpath(path)
posix_normpath(path) ==
    IF path = <<>> THEN <<".">>
    ELSE LET initial_slashes ==
                 IF ~StartsWith(path, <<SEP>>) THEN 0
                 ELSE IF StartsWith(path, <<SEP, SEP>>) /\ ~StartsWith(path, <<SEP, SEP, SEP>>)
                      THEN 2
                 ELSE 1
             joined == StrJoin(norm_comps(StrSplit(path, SEP), <<>>, initial_slashes), SEP)
             res == [i \in 1..initial_slashes |-> SEP] \o joined
         IN  IF res = <<>> THEN <<".">> ELSE res

\* posixpath.expanduser(path)
posix_expanduser(path, e) ==
    IF ~StartsWith(path, <<"~">>) THEN path
    ELSE LET found == Find(path, SEP, 1)
             i == IF found < 0 THEN Len(path) ELSE found
             name == SubSeq(path, 2, i)
             known == i = 1 \/ (name = <<"A">> /\ e.userA)
             userhome == IF i = 1
                         THEN IF e.HOME.set THEN e.HOME.val ELSE PwDirSelf
                         ELSE PwDirA
             res == RStrip(userhome, SEP) \o From(path, i)
         IN  IF ~known THEN path
             ELSE IF res = <<>> THEN <<SEP>> ELSE res

\* The search loop of posixpath.expandvars from index i: the next "$name"
\* is replaced by its value when the name is set, and scanning resumes
\* after the value; an unset name is left as it is.
RECURSIVE expandvars_from(_, _, _)
expandvars_from(path, i, e) ==
    LET starts == {s \in i..(Len(path) - 2) : path[s + 1] = "$" /\ IsWordChar(path[s + 2])}
    IN  IF starts = {} THEN path
        ELSE LET s == CHOOSE s \in starts : \A s2 \in starts : s <= s2
                 ends == {j \in (s + 2)..Len(path) :
                             j = Len(path) \/ ~IsWordChar(path[j + 1])}
                 j == CHOOSE j \in ends : \A j2 \in ends : j <= j2
                 name == SubSeq(path, s + 2, j)
             IN  IF name = <<"A">> /\ e.A.set
                 THEN LET replaced == UpTo(path, s) \o e.A.val
                      IN  expandvars_from(replaced \o From(path, j), Len(replaced), e)
                 ELSE expandvars_from(path, j, e)

\* posixpath.expandvars(path)
posix_expandvars(path, e) == expandvars_from(path, 0, e)

\* Path.dirname, Path.basename, Path.normpath, Path.expanduser,
\* Path.expandvars, Path.splitpath: each hands the text to the path module
\* and wraps the result in the same class.
dirname_AsBasename(p) == posix_basename(p)

dirname(p) == posix_dirname(p)

basename(p) == posix_basename(p)

normpath(p) == posix_normpath(p)

expanduser(p, e) == posix_expanduser(p, e)

expandvars(p, e) == posix_expandvars(p, e)

splitpath(p) == posix_split(p)

\* Path.expand(self)
expand_UserFirst(p, e) == normpath(expandvars(expanduser(p, e), e))

expand(p, e) == normpath(expanduser(expandvars(p, e), e))

StrInit ==
    /\ text \in Texts
    /\ env \in Envs
    /\ trail = NoOp

\* The record of one string method called on the current Path; `again`
\* tells that the call before was the same method.
Applied(op, result, child) ==
    [op |-> op, arg |-> text, result |-> result, child |-> child,
     again |-> trail.op = op]

\* Each method is called on the current Path, and the program goes on with
\* the Path it returned.
Dirname ==
    /\ trail' = Applied("dirname", dirname(text), <<>>)
    /\ text' = dirname(text)
    /\ UNCHANGED <<env, cwdVars, algVars, fsVars>>

Basename ==
    /\ trail' = Applied("basename", basename(text), <<>>)
    /\ text' = basename(text)
    /\ UNCHANGED <<env, cwdVars, algVars, fsVars>>

Splitpath ==
    /\ trail' = Applied("splitpath", splitpath(text)[1], splitpath(text)[2])
    /\ text' = splitpath(text)[1]
    /\ UNCHANGED <<env, cwdVars, algVars, fsVars>>

Normpath ==
    /\ trail' = Applied("normpath", normpath(text), <<>>)
    /\ text' = normpath(text)
    /\ UNCHANGED <<env, cwdVars, algVars, fsVars>>

Expanduser ==
    /\ trail' = Applied("expanduser", expanduser(text, env), <<>>)
    /\ text' = expanduser(text, env)
    /\ UNCHANGED <<env, cwdVars, algVars, fsVars>>

Expandvars ==
    /\ trail' = Applied("expandvars", expandvars(text, env), <<>>)
    /\ text' = expandvars(text, env)
    /\ UNCHANGED <<env, cwdVars, algVars, fsVars>>

Expand ==
    /\ trail' = Applied("expand", expand(text, env), <<>>)
    /\ text' = expand(text, env)
    /\ UNCHANGED <<env, cwdVars, algVars, fsVars>>

-----------------------------------------------------------------------------
(* Specifications of the scope and of the path algebra.                    *)

AlgIdle == host = "posixpath" /\ pending = Idle /\ out = NoOp

CwdIdle == CwdInit

FsIdle == fs = [n \in FsNames |-> "absent"] /\ fscall = NoOp

StrIdle ==
    /\ text = <<>>
    /\ env = [HOME |-> Unset, A |-> Unset, userA |-> FALSE]
    /\ trail = NoOp

CwdNext ==
    \/ \E o \in PathObjs : Enter(o)
    \/ Exit
    \/ Raise
    \/ Catch

InitCwd == CwdInit /\ AlgIdle /\ FsIdle /\ StrIdle

SpecCwd == InitCwd /\ [][CwdNext]_vars

ThrNext ==
    \/ \E t \in Threads : ThreadSave(t)
    \/ \E t \in Threads : ThreadChdir(t)
    \/ \E t \in Threads : ThreadLoad(t)
    \/ \E t \in Threads : ThreadRestore(t)

InitThr == ThrInit /\ AlgIdle /\ FsIdle /\ StrIdle

SpecThr == InitThr /\ [][ThrNext]_vars

ChainParts(h) ==
    {Str(<<"a">>), Str(<<"b">>), Path_new("Path", h, <<SEP, "a">>),
     [cls |-> "SwiftPath", s |-> SwiftDrive \o <<"a">>]} \ {AssertionError}

AlgNext ==
    \/ Construct
    \/ Divide
    \/ \E z \in ChainParts(host) : DivideResult(z)
    \/ JoinPath
    \/ Add

InitAlg == AlgInit /\ CwdIdle /\ FsIdle /\ StrIdle

SpecAlg == InitAlg /\ [][AlgNext]_vars

FsNext ==
    \/ \E n \in FsNames : Remove(n)
    \/ \E n \in FsNames : Rmtree(n)
    \/ \E n \in FsNames : Exists(n)
    \/ \E n \in FsNames, args \in OpenArgs, kw \in OpenKwargs : Open(n, args, kw)

InitFs == FsInit /\ CwdIdle /\ AlgIdle /\ StrIdle

SpecFs == InitFs /\ [][FsNext]_vars

StrNext ==
    \/ Dirname
    \/ Basename
    \/ Splitpath
    \/ Normpath
    \/ Expanduser
    \/ Expandvars
    \/ Expand

InitStr == StrInit /\ CwdIdle /\ AlgIdle /\ FsIdle

SpecStr == InitStr /\ [][StrNext]_vars

-----------------------------------------------------------------------------
(* Claims about the scope and the path algebra.                            *)

\* C1: entering a local Path as a scope sets the working directory to that
\* path, and leaving the scope, normally or by an exception, restores the
\* working directory to the value it had immediately before that entry.
C1_ScopeRestoresEntryDir ==
    /\ last.op = "enter" => cwd = PathOf(last.obj)
    /\ last.op = "exit" => cwd = last.entry

\* C2: x / y with x and y Paths of different variants, in either operand
\* order, fails with TypeError and never returns a Path.
C2_MixedVariantsDivFails ==
    (/\ out.op = "div"
     /\ IsPath(out.a)
     /\ IsPath(out.parts[1])
     /\ out.a.cls # out.parts[1].cls)
        => out.result = TypeError

C2_Witness ==
    /\ out.op = "div"
    /\ out.a.cls = "PosixPath"
    /\ out.parts[1].cls = "SwiftPath"
    /\ out.result = TypeError

C4_S3PrefixSelectsObjectStore ==
    (out.op = "new" /\ out.cls = "Path" /\ StartsWith(out.a.s, S3Drive))
        => out.result.cls \notin LocalClasses \cup {"AssertionError"}

\* C7: joinpath(self, *parts) gives what ((self / p1) / p2) / ... gives:
\* the same Path of self's variant, or the same failure when a part is a
\* Path of another variant.
C7_JoinpathIsIteratedDiv ==
    out.op = "joinpath" => out.result = IterDiv(out.a, out.parts)

\* C11: x + y with a Path on either side is the raw concatenation of the
\* two texts, with no separator added, as a Path of the Path operand's
\* variant; it fails with TypeError when the other operand is a Path of a
\* different variant, and when the Path is on the right of a left operand
\* that is not a string.
C11_AddConcatenatesOrFails ==
    out.op = "add" =>
        LET x == out.a
            y == out.parts[1]
            p == IF IsPath(x) THEN x ELSE y
        IN  /\ (IsPath(x) /\ IsPath(y) /\ x.cls # y.cls) => out.result = TypeError
            /\ ~IsString(x) => out.result = TypeError
            /\ (IsString(x) /\ IsString(y) /\ ~(IsPath(x) /\ IsPath(y) /\ x.cls # y.cls))
                  => out.result = [cls |-> p.cls, s |-> x.s \o y.s]

C11_Witness ==
    /\ out.op = "add"
    /\ out.a = Str(<<"a">>)
    /\ out.parts[1] = [cls |-> "SwiftPath", s |-> SwiftDrive \o <<"a">>]
    /\ out.result = [cls |-> "SwiftPath", s |-> <<"a">> \o SwiftDrive \o <<"a">>]

\* C13: in a properly nested sequence of scopes in one thread, re-entry of
\* an entered Path object included, the saved directory of every scope still
\* open is the directory current at that scope's entry, every exit restores
\* the directory of its own entry, and after the outermost exit the working
\* directory is the one before the outermost entry.
C13_NestedScopesKeepSavedDir ==
    /\ \A i \in 1..Len(scopes) : old_dir[scopes[i].obj] = scopes[i].entry
    /\ (last.op = "exit" /\ scopes = <<>>) => cwd = last.entry
    /\ (last.op = "exit" /\ scopes # <<>>) => cwd = last.entry

\* Both threads have left their with-blocks.
AllExited == \A t \in Threads : thr[t].pc = "done"

\* C12: the scope is not thread-safe.  Once both threads have left their
\* scopes, the working directory differs from the one before either entry
\* exactly when the _old_dir value restored last had been saved while the
\* other thread was inside its scope; such an interleaving exists.
C12_OverlappingScopesLeakDirectory ==
    AllExited => (cwd # "/home" <=> hist.loadedDuring[hist.lastOut])

C12_Witness ==
    /\ AllExited
    /\ thr["t1"].obj = "p1"
    /\ thr["t2"].obj = "p2"
    /\ cwd # "/home"
    /\ hist.loadedDuring[hist.lastOut]

-----------------------------------------------------------------------------
(* Claims about the filesystem operations.                                 *)

\* The native not-found condition: OSError with errno ENOENT, or ENOTDIR
\* when a component of the missing name is a file.
NotFoundError(r) == r.kind = "OSError" /\ r.err \in {"ENOENT", "ENOTDIR"}

\* C5: remove() on a path that does not exist fails with the not-found
\* error and leaves the tree unchanged; remove() on an existing file deletes
\* exactly that entry: it no longer exists and every other entry is as before.
C5_RemoveOneEntryOrNotFound ==
    fscall.op = "remove" =>
        /\ fscall.before[fscall.self] = "absent" =>
              /\ NotFoundError(fscall.result)
              /\ fs = fscall.before
        /\ fscall.before[fscall.self] = "file" =>
              /\ fscall.result = Ok
              /\ ~exists(fs, fscall.self)
              /\ \A m \in FsNames \ {fscall.self} : fs[m] = fscall.before[m]

C5_Witness ==
    /\ fscall.op = "remove"
    /\ fscall.again
    /\ fscall.result = OSError("ENOENT")
    /\ \E m \in FsNames : fs[m] = "file"

\* C6 as stated: rmtree() on a path that does not exist succeeds, so the
\* second of two rmtree() calls in a row on the same path never fails.
C6_RmtreeIdempotent ==
    (fscall.op = "rmtree" /\ fscall.before[fscall.self] = "absent")
        => fscall.result = Ok

\* C6 amended: rmtree() on a path that does not exist raises the native
\* not-found error and changes nothing, so the second of two rmtree() calls
\* in a row on the same path always fails; on an existing directory rmtree()
\* succeeds and removes the directory and everything under it, and nothing else.
C6_RmtreeFailsWhenAbsent ==
    fscall.op = "rmtree" =>
        /\ fscall.before[fscall.self] = "absent" =>
              /\ NotFoundError(fscall.result)
              /\ fs = fscall.before
        /\ fscall.again => fscall.result = OSError("ENOENT")
        /\ fscall.before[fscall.self] = "dir" =>
              /\ fscall.result = Ok
              /\ \A m \in FsNames :
                    fs[m] = IF Under(m, fscall.self) THEN "absent" ELSE fscall.before[m]

C6_Witness ==
    /\ fscall.op = "rmtree"
    /\ fscall.again
    /\ fscall.before[fscall.self] = "absent"
    /\ fscall.result = OSError("ENOENT")

\* C8: open() on a local Path drops swift_upload_kwargs before the native
\* open and opens the file named by the Path itself.
C8_OpenOpensThePath ==
    fscall.op = "open" =>
        /\ fscall.native.kw.swift_upload_kwargs = ""
        /\ fscall.native.args # <<>> /\ fscall.native.args[1] = fscall.self
        /\ fscall.result.kind = "stream" => fscall.result.file = fscall.self

-----------------------------------------------------------------------------
(* Claims about the string operations.                                     *)

IsNormalized(p) == normpath(p) = p

\* C9 as stated: for every local path string p (the empty text is not one),
\* dirname(p) followed by the separator and basename(p) is normpath(p).
C9_DirnameSepBasenameIsNormpath ==
    (trail.op = "dirname" /\ trail.arg # <<>>) =>
        trail.result \o <<SEP>> \o basename(trail.arg) = normpath(trail.arg)

\* C9 amended: for every local-POSIX path string p, dirname(p) joined with
\* basename(p) by the path module's join (which adds the separator only when
\* needed) normalizes to normpath(p); and dirname(p) + separator + basename(p)
\* is normpath(p) when p is already normalized and its dirname is neither
\* empty nor made of separators only.
C9_DirnameJoinBasenameNormalizes ==
    trail.op = "dirname" =>
        LET p == trail.arg
            d == trail.result
        IN  /\ normpath(posix_join(d, <<basename(p)>>)) = normpath(p)
            /\ (IsNormalized(p) /\ d # <<>> /\ ~AllChar(d, SEP))
                  => d \o <<SEP>> \o basename(p) = normpath(p)

C9_Witness ==
    /\ trail.op = "dirname"
    /\ trail.arg = <<SEP, "A">>
    /\ trail.result = <<SEP>>
    /\ trail.result \o <<SEP>> \o basename(trail.arg) # normpath(trail.arg)

HasDollar(p) == \E i \in 1..Len(p) : p[i] = "$"

\* C10 as stated: expand() is expandvars, then expanduser, then normpath,
\* and expanding the result of expand() again changes nothing.
C10_ExpandIdempotent ==
    trail.op = "expand" =>
        /\ trail.result =
              posix_normpath(posix_expanduser(posix_expandvars(trail.arg, env), env))
        /\ trail.again => trail.result = trail.arg

\* C10 amended: on the local-POSIX variant expand() is expandvars, then
\* expanduser, then normpath, and expanding the result of expand() again
\* changes nothing whenever that result holds no "$" and does not start
\* with "~".
C10_ExpandIdempotentOnPlainResult ==
    trail.op = "expand" =>
        /\ trail.result =
              posix_normpath(posix_expanduser(posix_expandvars(trail.arg, env), env))
        /\ (trail.again /\ ~HasDollar(trail.arg) /\ ~StartsWith(trail.arg, <<"~">>))
              => trail.result = trail.arg

C10_Witness ==
    /\ trail.op = "expand"
    /\ trail.again
    /\ env.HOME.set
    /\ trail.arg = <<SEP, "A", SEP, "A">>
    /\ trail.result = trail.arg

====
